---- MODULE Spec2Model ----
(***************************************************************************)
(* Conflict resolution of unidep (src/unidep/_conflicts.py).               *)
(*                                                                         *)
(* A Python str is a sequence of one-character strings, so that substring  *)
(* tests, replace(), int() and the lexicographic order of str are computed *)
(* and not assumed.  A Python dict is an association list in insertion     *)
(* order: a sequence of <<key, value>> pairs with distinct keys.           *)
(***************************************************************************)
EXTENDS Integers, Sequences, FiniteSets, TLC

VARIABLES
    pc,            \* position of the caller: "input", "prepared", "selected", "done", "filtered"
    requirements,  \* the argument of resolve_conflicts: dict package -> list of Meta
    prepared,      \* the Grouper's result: dict package -> dict platform -> dict which -> list
    resolved,      \* the Selector's, then the Reconciler's result
    warnings,      \* the warnings emitted so far, in emission order
    pinnings,      \* the argument of combine_version_pinnings
    outcome,       \* what combine_version_pinnings did: nothing yet, a str, or ValueError
    pip_deps       \* what filter_python_dependencies(resolved) returned, once called

vars == <<pc, requirements, prepared, resolved, warnings, pinnings, outcome, pip_deps>>

\* ---------------------------------------------------------------- bounds
MaxMetas == 3     \* Declarations in the input of resolve_conflicts
MaxPins == 3      \* pins in the input of combine_version_pinnings
MaxVer == 2       \* versions 1..MaxVer appear in the pins of the combiner's input

\* ---------------------------------------------------------------- Python values
\* None where a str or a list is expected (Meta.pin, Meta.platforms()): a
\* sequence that is no str (its element is no character) and no platform list.
None == <<"None">>

\* None used as a key among the platform names (line 39: platforms = [None]).
NoneKey == "none"

\* The characters of the model in code-point order; Ord is the rank in it.
Alphabet == <<"-", ".", "0", "1", "2", "3", "4", "5", "6", "7", "8", "9", "<", "=", ">", "x">>

Ord(c) == CHOOSE i \in 1..Len(Alphabet) : Alphabet[i] = c

Min2(a, b) == IF a <= b THEN a ELSE b

\* a < b for two str: the first differing character decides, else the length.
StrLess(a, b) ==
    \E k \in 0..Min2(Len(a), Len(b)) :
        /\ \A i \in 1..k : a[i] = b[i]
        /\ \/ k = Len(a) /\ k < Len(b)
           \/ k < Len(a) /\ k < Len(b) /\ Ord(a[k + 1]) < Ord(b[k + 1])

\* ---------------------------------------------------------------- dict
DictKeys(d) == {d[i][1] : i \in 1..Len(d)}

DictHas(d, k) == k \in DictKeys(d)

DictGet(d, k) == d[CHOOSE i \in 1..Len(d) : d[i][1] = k][2]

\* d[k] = v: an existing key keeps its position, a new key goes last.
DictSet(d, k, v) ==
    IF DictHas(d, k)
    THEN [i \in 1..Len(d) |-> IF d[i][1] = k THEN <<k, v>> ELSE d[i]]
    ELSE Append(d, <<k, v>>)

\* ---------------------------------------------------------------- Meta
\* A Declaration: name, ecosystem (which), pin (a str or None) and the value
\* of platforms() (a non-empty list of distinct platforms, or None).
Whichs == {"conda", "pip"}

MetaPins == {None, <<>>, <<">", "=", "9">>, <<">", "=", "1", "0">>}

MetaPlatforms == {None, <<"linux-64">>, <<"linux-64", "osx-64">>}

Meta(n, w, p, pl) == [name |-> n, which |-> w, pin |-> p, platforms |-> pl]

\* The Declarations the caller may pass: for numpy every ecosystem, pin and
\* platform list (the empty pin with the null platform list only), and one
\* Declaration of a second package.
Metas ==
    {Meta("numpy", w, p, pl) : w \in Whichs, p \in MetaPins \ {<<>>}, pl \in MetaPlatforms}
        \cup {Meta("numpy", w, <<>>, None) : w \in Whichs}
        \cup {Meta("scipy", "pip", None, None)}

\* GroupAppend that skips a Declaration the bucket already holds.
GroupAppend_Dedup(grouped, platform, meta) ==
    LET inner == IF DictHas(grouped, platform) THEN DictGet(grouped, platform) ELSE <<>>
        lst == IF DictHas(inner, meta.which) THEN DictGet(inner, meta.which) ELSE <<>>
    IN  IF \E k \in 1..Len(lst) : lst[k] = meta THEN grouped
        ELSE DictSet(grouped, platform, DictSet(inner, meta.which, Append(lst, meta)))

\* ---------------------------------------------------------------- Grouper
\* grouped_metas[_platform][meta.which].append(meta), both levels auto-vivifying.
GroupAppend(grouped, platform, meta) ==
    LET inner == IF DictHas(grouped, platform) THEN DictGet(grouped, platform) ELSE <<>>
        lst == IF DictHas(inner, meta.which) THEN DictGet(inner, meta.which) ELSE <<>>
    IN  DictSet(grouped, platform, DictSet(inner, meta.which, Append(lst, meta)))

\* The inner loop of lines 40-41 over platforms[i..].
RECURSIVE GroupPlatforms(_, _, _, _)
GroupPlatforms(grouped, platforms, i, meta) ==
    IF i > Len(platforms) THEN grouped
    ELSE GroupPlatforms(GroupAppend(grouped, platforms[i], meta), platforms, i + 1, meta)

\* The loop of lines 36-41 over meta_list[i..].
RECURSIVE GroupMetas(_, _, _)
GroupMetas(grouped, meta_list, i) ==
    IF i > Len(meta_list) THEN grouped
    ELSE LET meta == meta_list[i]
             platforms == IF meta.platforms = None THEN <<NoneKey>> ELSE meta.platforms
         IN  GroupMetas(GroupPlatforms(grouped, platforms, 1, meta), meta_list, i + 1)

PrepareMetas(reqs) ==
    [i \in 1..Len(reqs) |-> <<reqs[i][1], GroupMetas(<<>>, reqs[i][2], 1)>>]

\* ---------------------------------------------------------------- Selector
\* key(a) < key(b) for the sort key (m.pin is not None, m.pin) of line 57:
\* tuples compare by their first differing item, False < True, str by StrLess;
\* two keys (False, None) are equal, so None is never ordered against a str.
KeyLess(a, b) ==
    IF (a.pin # None) # (b.pin # None) THEN a.pin = None
    ELSE IF a.pin = None THEN FALSE
    ELSE StrLess(a.pin, b.pin)

\* One step of a stable descending sort: m goes before the first element
\* with a strictly smaller key, so equal keys keep their input order (as
\* list.sort(reverse=True) does).
RECURSIVE InsertDesc(_, _)
InsertDesc(sorted, m) ==
    IF sorted = <<>> THEN <<m>>
    ELSE IF KeyLess(Head(sorted), m) THEN <<m>> \o sorted
    ELSE <<Head(sorted)>> \o InsertDesc(Tail(sorted), m)

RECURSIVE SortFrom(_, _, _)
SortFrom(sorted, metas, i) ==
    IF i > Len(metas) THEN sorted
    ELSE SortFrom(InsertDesc(sorted, metas[i]), metas, i + 1)

\* The sort of line 57 without reverse=True: ascending, so metas[0] is a
\* Declaration with the smallest key.
SortMetas_Ascending(metas) ==
    LET desc == SortFrom(<<>>, metas, 1)
    IN  [k \in 1..Len(desc) |-> desc[Len(desc) + 1 - k]]

\* The bucket without the sort of line 57: metas[0] is the Declaration that
\* comes first in the input list.
SortMetas_Unsorted(metas) == metas

\* metas.sort(key=lambda m: (m.pin is not None, m.pin), reverse=True)
SortMetas(metas) == SortFrom(<<>>, metas, 1)

\* The warning of lines 61-72.
PlatformWarning(platform, which, selected, discarded) ==
    [kind |-> "platform",
     on_platform |-> IF platform = NoneKey THEN "all platforms" ELSE platform,
     which |-> which,
     selected |-> selected,
     discarded |-> discarded]

\* SelectBucket without the filter `if m != selected_meta` of line 60.
SelectBucket_WarnsEqual(platform, which, metas) ==
    IF Len(metas) > 1
    THEN LET sorted == SortMetas(metas)
             selected_meta == sorted[1]
             discarded_metas == Tail(sorted)
         IN  [metas |-> sorted,
              selected |-> selected_meta,
              warns |-> IF discarded_metas # <<>>
                        THEN <<PlatformWarning(platform, which, selected_meta, discarded_metas)>>
                        ELSE <<>>]
    ELSE [metas |-> metas, selected |-> metas[1], warns |-> <<>>]

\* The body of the loop over one bucket, lines 55-76: the list as the call
\* leaves it (sorted in place when longer than one), the selected Meta and
\* the warnings emitted.
SelectBucket(platform, which, metas) ==
    IF Len(metas) > 1
    THEN LET sorted == SortMetas(metas)
             selected_meta == sorted[1]
             discarded_metas == SelectSeq(Tail(sorted), LAMBDA m : m # selected_meta)
         IN  [metas |-> sorted,
              selected |-> selected_meta,
              warns |-> IF discarded_metas # <<>>
                        THEN <<PlatformWarning(platform, which, selected_meta, discarded_metas)>>
                        ELSE <<>>]
    ELSE [metas |-> metas, selected |-> metas[1], warns |-> <<>>]

RECURSIVE Flatten(_)
Flatten(seqs) == IF seqs = <<>> THEN <<>> ELSE Head(seqs) \o Flatten(Tail(seqs))

\* _select_preferred_version_within_platform(data): the returned
\* reduced_data, `data` as the call leaves it, and the warnings in
\* emission order (platforms, then ecosystems, in dict order).
SelectPreferred(data) ==
    LET bucket(i, j) == SelectBucket(data[i][1], data[i][2][j][1], data[i][2][j][2])
    IN  [reduced |-> [i \in 1..Len(data) |->
                        <<data[i][1],
                          [j \in 1..Len(data[i][2]) |->
                              <<data[i][2][j][1], bucket(i, j).selected>>]>>],
         data |-> [i \in 1..Len(data) |->
                        <<data[i][1],
                          [j \in 1..Len(data[i][2]) |->
                              <<data[i][2][j][1], bucket(i, j).metas>>]>>],
         warns |-> Flatten([i \in 1..Len(data) |->
                        Flatten([j \in 1..Len(data[i][2]) |-> bucket(i, j).warns])])]

\* ---------------------------------------------------------------- Reconciler
\* Python truthiness of a pin: None and the empty str are false.
Truthy(pin) == pin # None /\ pin # <<>>

PinWarning(conda_meta, pip_meta) ==
    [kind |-> "pin", conda_pin |-> conda_meta.pin, pip_pin |-> pip_meta.pin]

\* ResolveCondaPip with rule 4 preferring conda: two different pins keep only
\* the conda Declaration.
ResolveCondaPip_PreferConda(srcs) ==
    IF ~DictHas(srcs, "conda") \/ ~DictHas(srcs, "pip")
    THEN [sources |-> srcs, warns |-> <<>>]
    ELSE LET conda_meta == DictGet(srcs, "conda")
             pip_meta == DictGet(srcs, "pip")
             both == << <<"conda", conda_meta>>, <<"pip", pip_meta>> >>
         IN  IF Truthy(conda_meta.pin) /\ ~Truthy(pip_meta.pin)
             THEN [sources |-> << <<"conda", conda_meta>> >>, warns |-> <<>>]
             ELSE IF Truthy(pip_meta.pin) /\ ~Truthy(conda_meta.pin)
             THEN [sources |-> << <<"pip", pip_meta>> >>, warns |-> <<>>]
             ELSE IF conda_meta.pin = pip_meta.pin
             THEN [sources |-> both, warns |-> <<>>]
             ELSE [sources |-> << <<"conda", conda_meta>> >>,
                   warns |-> <<PinWarning(conda_meta, pip_meta)>>]

\* _resolve_conda_pip_conflicts(sources): the returned dict and the warnings.
ResolveCondaPip(srcs) ==
    IF ~DictHas(srcs, "conda") \/ ~DictHas(srcs, "pip")
    THEN [sources |-> srcs, warns |-> <<>>]
    ELSE LET conda_meta == DictGet(srcs, "conda")
             pip_meta == DictGet(srcs, "pip")
             both == << <<"conda", conda_meta>>, <<"pip", pip_meta>> >>
         IN  IF Truthy(conda_meta.pin) /\ ~Truthy(pip_meta.pin)
             THEN [sources |-> << <<"conda", conda_meta>> >>, warns |-> <<>>]
             ELSE IF Truthy(pip_meta.pin) /\ ~Truthy(conda_meta.pin)
             THEN [sources |-> << <<"pip", pip_meta>> >>, warns |-> <<>>]
             ELSE IF conda_meta.pin = pip_meta.pin
             THEN [sources |-> both, warns |-> <<>>]
             ELSE [sources |-> both, warns |-> <<PinWarning(conda_meta, pip_meta)>>]

\* The loop of lines 118-120 over `resolved`: every slot replaced by the
\* Reconciler's result, the warnings in iteration order.
ReconcileAll(res) ==
    LET slot(i, j) == ResolveCondaPip(res[i][2][j][2])
    IN  [resolved |-> [i \in 1..Len(res) |->
                        <<res[i][1],
                          [j \in 1..Len(res[i][2]) |->
                              <<res[i][2][j][1], slot(i, j).sources>>]>>],
         warns |-> Flatten([i \in 1..Len(res) |->
                        Flatten([j \in 1..Len(res[i][2]) |-> slot(i, j).warns])])]

\* ---------------------------------------------------------------- resolve_conflicts
RECURSIVE SumLen(_)
SumLen(d) == IF d = <<>> THEN 0 ELSE Len(Head(d)[2]) + SumLen(Tail(d))

Init ==
    /\ pc = "input"
    /\ requirements = <<>>
    /\ prepared = <<>>
    /\ resolved = <<>>
    /\ warnings = <<>>
    /\ pinnings = <<>>
    /\ outcome = [kind |-> "none"]
    /\ pip_deps = [kind |-> "none"]

\* The caller builds the argument: one more Declaration for its package.
AddMeta(m) ==
    /\ pc = "input"
    /\ SumLen(requirements) < MaxMetas
    /\ requirements' =
          DictSet(requirements, m.name,
                  Append(IF DictHas(requirements, m.name)
                         THEN DictGet(requirements, m.name) ELSE <<>>, m))
    /\ UNCHANGED <<pc, prepared, resolved, warnings, pinnings, outcome, pip_deps>>

\* line 112
Prepare ==
    /\ pc = "input"
    /\ prepared' = PrepareMetas(requirements)
    /\ pc' = "prepared"
    /\ UNCHANGED <<requirements, resolved, warnings, pinnings, outcome, pip_deps>>

\* lines 114-117: the Selector on every package of `prepared`; its in-place
\* sort is visible in `prepared`.
Select ==
    /\ pc = "prepared"
    /\ LET r == [i \in 1..Len(prepared) |-> SelectPreferred(prepared[i][2])]
       IN  /\ resolved' = [i \in 1..Len(prepared) |-> <<prepared[i][1], r[i].reduced>>]
           /\ prepared' = [i \in 1..Len(prepared) |-> <<prepared[i][1], r[i].data>>]
           /\ warnings' = warnings \o Flatten([i \in 1..Len(prepared) |-> r[i].warns])
    /\ pc' = "selected"
    /\ UNCHANGED <<requirements, pinnings, outcome, pip_deps>>

\* lines 118-121
Reconcile ==
    /\ pc = "selected"
    /\ LET r == ReconcileAll(resolved)
       IN  /\ resolved' = r.resolved
           /\ warnings' = warnings \o r.warns
    /\ pc' = "done"
    /\ UNCHANGED <<requirements, prepared, pinnings, outcome, pip_deps>>

\* ---------------------------------------------------------------- filter_python_dependencies
\* The platforms PEP508_MARKERS has a marker for, in the order sorted() gives.
MarkerPlatforms == <<"linux-64", "osx-64">>

\* A dependency string without marker (dep_str alone) and with one
\* (f"{dep_str}; {selector}"): the Declaration that name_with_pin renders
\* and the platforms the selector is made of.
NoMarker == [kind |-> "none"]

\* build_pep508_environment_marker(platforms): sorted(), which raises
\* TypeError when None is ordered against a str, then the marker of the
\* sorted tuple or the markers of its platforms joined by " or "; a platform
\* without marker (None) adds nothing.
BuildMarker(platforms) ==
    IF Len(platforms) > 1 /\ \E i \in 1..Len(platforms) : platforms[i] = NoneKey
    THEN [kind |-> "TypeError"]
    ELSE [kind |-> "marker",
          platforms |-> SelectSeq(MarkerPlatforms,
                            LAMBDA q : \E i \in 1..Len(platforms) : platforms[i] = q)]

DepStr(spec, marker) == [spec |-> spec, marker |-> marker]

\* The body of the loop of lines 52-77 for one package: the strings appended
\* to pip_deps.  _platform at line 66 is the variable of the loop of line 54,
\* so it holds the last key of platform_data.
FilterPackage(platform_data) ==
    LET to_process ==
            [k \in 1..Len(SelectSeq(platform_data, LAMBDA e : DictHas(e[2], "pip"))) |->
                LET e == SelectSeq(platform_data, LAMBDA x : DictHas(x[2], "pip"))[k]
                IN  <<e[1], DictGet(e[2], "pip")>>]
        keys == [k \in 1..Len(to_process) |-> to_process[k][1]]
    IN  IF to_process = <<>> THEN <<>>
        ELSE LET first_spec == to_process[1][2]
                 _platform == platform_data[Len(platform_data)][1]
             IN  IF \A k \in 1..Len(to_process) : to_process[k][2] = first_spec
                 THEN <<DepStr(first_spec,
                               IF _platform # NoneKey THEN BuildMarker(keys) ELSE NoMarker)>>
                 ELSE [k \in 1..Len(to_process) |->
                          DepStr(to_process[k][2],
                                 IF to_process[k][1] # NoneKey
                                 THEN BuildMarker(<<to_process[k][1]>>)
                                 ELSE NoMarker)]

\* filter_python_dependencies(resolved): TypeError when a marker could not be
\* built, else the list of line 78.  sorted() orders it by the text of the
\* strings, so the list is given by its elements and how often each occurs.
FilterPythonDependencies(res) ==
    LET deps == Flatten([i \in 1..Len(res) |-> FilterPackage(res[i][2])])
    IN  IF \E k \in 1..Len(deps) : deps[k].marker.kind = "TypeError"
        THEN [kind |-> "TypeError"]
        ELSE [kind |-> "list",
              count |-> [d \in {deps[k] : k \in 1..Len(deps)} |->
                            Cardinality({k \in 1..Len(deps) : deps[k] = d})]]

\* The caller passes the result of resolve_conflicts on.
Filter ==
    /\ pc = "done"
    /\ pip_deps' = FilterPythonDependencies(resolved)
    /\ pc' = "filtered"
    /\ UNCHANGED <<requirements, prepared, resolved, warnings, pinnings, outcome>>

Next ==
    \/ \E m \in Metas : AddMeta(m)
    \/ Prepare
    \/ Select
    \/ Reconcile
    \/ Filter

Spec == Init /\ [][Next]_vars

\* ---------------------------------------------------------------- Constraint Combiner
LT == <<"<">>

LE == <<"<", "=">>

GT == <<">">>

GE == <<">", "=">>

\* The operators in the order _parse_pinning tries them (line 126).
Operators == <<LE, GE, LT, GT>>

\* sub in s
Contains(s, sub) ==
    \E i \in 1..(Len(s) - Len(sub) + 1) : SubSeq(s, i, i + Len(sub) - 1) = sub

\* s.startswith(prefix)
StartsWith(s, prefix) == Len(s) >= Len(prefix) /\ SubSeq(s, 1, Len(prefix)) = prefix

\* s.replace(sub, ""): every occurrence removed, scanning left to right.
RECURSIVE Remove(_, _)
Remove(s, sub) ==
    IF Len(s) < Len(sub) THEN s
    ELSE IF SubSeq(s, 1, Len(sub)) = sub THEN Remove(SubSeq(s, Len(sub) + 1, Len(s)), sub)
    ELSE <<Head(s)>> \o Remove(Tail(s), sub)

Digits == <<"0", "1", "2", "3", "4", "5", "6", "7", "8", "9">>

IsDigit(c) == \E i \in 1..Len(Digits) : Digits[i] = c

DigitVal(c) == (CHOOSE i \in 1..Len(Digits) : Digits[i] = c) - 1

\* int(s) does not raise ValueError: an optional sign and one or more digits
\* (over the characters of the model; no blanks, no underscores).
IsInt(s) ==
    LET body == IF s # <<>> /\ Head(s) \in {"-", "+"} THEN Tail(s) ELSE s
    IN  body # <<>> /\ \A i \in 1..Len(body) : IsDigit(body[i])

RECURSIVE NatOf(_)
NatOf(body) ==
    IF body = <<>> THEN 0
    ELSE 10 * NatOf(SubSeq(body, 1, Len(body) - 1)) + DigitVal(body[Len(body)])

\* int(s), for s with IsInt(s)
IntOf(s) ==
    IF Head(s) = "-" THEN 0 - NatOf(Tail(s))
    ELSE IF Head(s) = "+" THEN NatOf(Tail(s))
    ELSE NatOf(s)

\* _parse_pinning(pinning): ok is FALSE when int() raises ValueError.
ParsePinning(pinning) ==
    IF \E k \in 1..Len(Operators) : Contains(pinning, Operators[k])
    THEN LET k == CHOOSE j \in 1..Len(Operators) :
                      /\ Contains(pinning, Operators[j])
                      /\ \A h \in 1..(j - 1) : ~Contains(pinning, Operators[h])
             rest == Remove(pinning, Operators[k])
         IN  IF IsInt(rest)
             THEN [ok |-> TRUE, op |-> Operators[k], ver |-> IntOf(rest)]
             ELSE [ok |-> FALSE]
    ELSE [ok |-> TRUE, op |-> <<>>, ver |-> 0]

IsUpper(op) == op \in {LT, LE}

IsLower(op) == op \in {GT, GE}

\* _is_redundant(pinning, other_pinnings), for pinnings that parse.
IsRedundant(pinning, other_pinnings) ==
    LET p == ParsePinning(pinning)
    IN  \E i \in 1..Len(other_pinnings) :
            LET other == other_pinnings[i]
                o == ParsePinning(other)
            IN  /\ other # pinning
                /\ \/ IsUpper(p.op) /\ IsUpper(o.op) /\ p.ver >= o.ver
                   \/ IsLower(p.op) /\ IsLower(o.op) /\ p.ver <= o.ver

\* _is_valid_pinning(pinning)
IsValidPinning(pinning) ==
    IF Contains(pinning, <<"=">>) /\ StartsWith(pinning, <<"=">>)
    THEN IsInt(Tail(pinning))
    ELSE IF \E k \in 1..Len(Operators) : Contains(pinning, Operators[k])
    THEN ParsePinning(pinning).ok
    ELSE FALSE

\* What a call does: it returns a str or raises ValueError, either the
\* contradiction of lines 179-180 and 198-199 (with the two pins of the
\* message) or the one int() raises on a str that is no integer.
Returned(s) == [kind |-> "str", value |-> s]

Contradiction(pin, other_pin) == [kind |-> "contradiction", pin |-> pin, other_pin |-> other_pin]

InvalidLiteral == [kind |-> "invalid_literal"]

\* The loop of lines 173-180 over valid_pinnings[i..], then line 181.
RECURSIVE ExactLoop(_, _, _)
ExactLoop(valid_pinnings, exact, i) ==
    IF i > Len(valid_pinnings) THEN Returned(exact)
    ELSE LET other_pin == valid_pinnings[i]
         IN  IF other_pin = exact THEN ExactLoop(valid_pinnings, exact, i + 1)
             ELSE LET o == ParsePinning(other_pin)
                      exact_version == IntOf(Tail(exact))
                  IN  IF ~o.ok THEN InvalidLiteral
                      ELSE IF \/ IsUpper(o.op) /\ exact_version >= o.ver
                              \/ IsLower(o.op) /\ exact_version <= o.ver
                      THEN Contradiction(exact, other_pin)
                      ELSE ExactLoop(valid_pinnings, exact, i + 1)

\* pin and other_pin contradict each other (lines 195-197).
Contradicts(pin, other_pin) ==
    LET a == ParsePinning(pin)
        b == ParsePinning(other_pin)
    IN  \/ IsUpper(a.op) /\ IsLower(b.op) /\ a.ver < b.ver
        \/ IsUpper(b.op) /\ IsLower(a.op) /\ b.ver < a.ver

\* min(pins, key=lambda p: _parse_pinning(p)[1]): the first of the smallest.
MinByVersion(pins) ==
    pins[CHOOSE i \in 1..Len(pins) :
            /\ \A j \in 1..Len(pins) : ParsePinning(pins[i]).ver <= ParsePinning(pins[j]).ver
            /\ \A j \in 1..(i - 1) : ParsePinning(pins[j]).ver > ParsePinning(pins[i]).ver]

\* ",".join(pins)
RECURSIVE Join(_)
Join(pins) ==
    IF pins = <<>> THEN <<>>
    ELSE IF Len(pins) = 1 THEN pins[1]
    ELSE pins[1] \o <<",">> \o Join(Tail(pins))

\* Lines 183-207, for a non-empty valid_pinnings without exact pin.
CombineBounds(valid_pinnings) ==
    IF \E i \in 1..Len(valid_pinnings) : ~ParsePinning(valid_pinnings[i]).ok
    THEN InvalidLiteral
    ELSE LET non_redundant_pinnings ==
                 SelectSeq(valid_pinnings, LAMBDA p : ~IsRedundant(p, valid_pinnings))
             n == Len(non_redundant_pinnings)
             clash(i, j) == Contradicts(non_redundant_pinnings[i], non_redundant_pinnings[j])
             pairs == {<<i, j>> \in (1..n) \X (1..n) : i < j /\ clash(i, j)}
             inclusive_pinnings ==
                 SelectSeq(valid_pinnings, LAMBDA p : StartsWith(p, LE) \/ StartsWith(p, GE))
         IN  IF pairs # {}
             THEN LET first == CHOOSE q \in pairs :
                                   \A r \in pairs : q[1] < r[1] \/ (q[1] = r[1] /\ q[2] <= r[2])
                  IN  Contradiction(non_redundant_pinnings[first[1]],
                                    non_redundant_pinnings[first[2]])
             ELSE IF non_redundant_pinnings = <<>>
             THEN IF inclusive_pinnings # <<>>
                  THEN Returned(MinByVersion(inclusive_pinnings))
                  ELSE Returned(MinByVersion(valid_pinnings))
             ELSE Returned(Join(non_redundant_pinnings))

\* combine_version_pinnings without the filter of line 164.
CombineVersionPinnings_Unfiltered(pins) ==
    LET valid_pinnings == pins
        exact_pinnings == SelectSeq(valid_pinnings, LAMBDA p : StartsWith(p, <<"=">>))
    IN  IF valid_pinnings = <<>> THEN Returned(<<>>)
        ELSE IF exact_pinnings # <<>> THEN ExactLoop(valid_pinnings, exact_pinnings[1], 1)
        ELSE CombineBounds(valid_pinnings)

\* combine_version_pinnings(pinnings)
CombineVersionPinnings(pins) ==
    LET valid_pinnings == SelectSeq(pins, IsValidPinning)
        exact_pinnings == SelectSeq(valid_pinnings, LAMBDA p : StartsWith(p, <<"=">>))
    IN  IF valid_pinnings = <<>> THEN Returned(<<>>)
        ELSE IF exact_pinnings # <<>> THEN ExactLoop(valid_pinnings, exact_pinnings[1], 1)
        ELSE CombineBounds(valid_pinnings)

\* The pins the caller may pass: every operator and "=" with the versions
\* 1..MaxVer, and strings that are no pin.
VerStr(v) == <<Digits[v + 1]>>

WellFormedPins == {op \o VerStr(v) : op \in {LT, LE, GT, GE, <<"=">>}, v \in 1..MaxVer}

OtherPins ==
    {<<>>, <<"x">>, <<"<">>, <<"=", "x">>, <<"=", "=", "1">>,
     <<">", "=", "1", ".", "2">>, <<"1", "<">>}

PinStrings == WellFormedPins \cup OtherPins

\* The caller builds the argument: one more pin.
AddPin(p) ==
    /\ outcome.kind = "none"
    /\ Len(pinnings) < MaxPins
    /\ pinnings' = Append(pinnings, p)
    /\ UNCHANGED <<pc, requirements, prepared, resolved, warnings, outcome, pip_deps>>

Combine ==
    /\ outcome.kind = "none"
    /\ outcome' = CombineVersionPinnings(pinnings)
    /\ UNCHANGED <<pc, requirements, prepared, resolved, warnings, pinnings, pip_deps>>

NextCombine ==
    \/ \E p \in PinStrings : AddPin(p)
    \/ Combine

SpecCombine == Init /\ [][NextCombine]_vars

\* ---------------------------------------------------------------- vocabulary of the claims
\* The platforms a Declaration applies to, as slot keys.
PlatformKeys(m) ==
    IF m.platforms = None THEN {NoneKey} ELSE {m.platforms[i] : i \in 1..Len(m.platforms)}

Occurrences(pkg) == DictGet(requirements, pkg)

\* m is the surviving Declaration of slot (pkg, p, m.which) of `resolved`.
Survives(pkg, p, m) ==
    /\ DictHas(resolved, pkg)
    /\ DictHas(DictGet(resolved, pkg), p)
    /\ DictHas(DictGet(DictGet(resolved, pkg), p), m.which)
    /\ DictGet(DictGet(DictGet(resolved, pkg), p), m.which) = m

\* The discard warnings of bucket (pkg, p, which).
BucketWarnings(pkg, p, which) ==
    {i \in 1..Len(warnings) :
        /\ warnings[i].kind = "platform"
        /\ warnings[i].on_platform = (IF p = NoneKey THEN "all platforms" ELSE p)
        /\ warnings[i].which = which
        /\ warnings[i].selected.name = pkg}

\* The discard warnings of the bucket that name m.
WarningsNaming(pkg, p, m) ==
    {i \in BucketWarnings(pkg, p, m.which) :
        \E k \in 1..Len(warnings[i].discarded) : warnings[i].discarded[k] = m}

\* All discard warnings that name m, whatever the bucket.
AllWarningsNaming(m) ==
    {i \in 1..Len(warnings) :
        /\ warnings[i].kind = "platform"
        /\ \E k \in 1..Len(warnings[i].discarded) : warnings[i].discarded[k] = m}

\* The slots of `resolved` in which m survives.
SlotsOf(pkg, m) == {p \in DictKeys(DictGet(resolved, pkg)) : Survives(pkg, p, m)}

Other(which) == IF which = "conda" THEN "pip" ELSE "conda"

\* Slot (pkg, p) holds only the other ecosystem's Declaration, which has a
\* pin, and m has none (None or the empty str): the Reconciler dropped m.
DroppedByReconciler(pkg, p, m) ==
    /\ ~Truthy(m.pin)
    /\ DictHas(resolved, pkg)
    /\ DictHas(DictGet(resolved, pkg), p)
    /\ LET slot == DictGet(DictGet(resolved, pkg), p)
       IN  /\ DictKeys(slot) = {Other(m.which)}
           /\ Truthy(DictGet(slot, Other(m.which)).pin)

MetasOf(pkg) == {Occurrences(pkg)[k] : k \in 1..Len(Occurrences(pkg))}

ValidPins == SelectSeq(pinnings, IsValidPinning)

\* The exact pins among them.
ExactPins == SelectSeq(ValidPins, LAMBDA p : StartsWith(p, <<"=">>))

\* `<M` or `<=M`, `>N` or `>=N`: a valid pin that starts with the operator.
IsUpperBound(p) == IsValidPinning(p) /\ StartsWith(p, LT)

IsLowerBound(p) == IsValidPinning(p) /\ StartsWith(p, GT)

Threshold(p) == ParsePinning(p).ver

\* Every valid pin of the argument has the form the claims speak of: `=N`, or
\* one of the four operators followed by an integer.
PlainPins ==
    \A i \in 1..Len(ValidPins) :
        \/ StartsWith(ValidPins[i], <<"=">>)
        \/ IsUpperBound(ValidPins[i])
        \/ IsLowerBound(ValidPins[i])

\* Version v satisfies the valid pin p.
Satisfies(v, p) ==
    IF StartsWith(p, <<"=">>) THEN v = IntOf(Tail(p))
    ELSE LET r == ParsePinning(p)
         IN  CASE r.op = LT -> v < r.ver
               [] r.op = LE -> v <= r.ver
               [] r.op = GT -> v > r.ver
               [] r.op = GE -> v >= r.ver

\* s.split(",")
RECURSIVE Split(_)
Split(s) ==
    IF \E i \in 1..Len(s) : s[i] = ","
    THEN LET i == CHOOSE j \in 1..Len(s) : s[j] = "," /\ \A h \in 1..(j - 1) : s[h] # ","
         IN  <<SubSeq(s, 1, i - 1)>> \o Split(SubSeq(s, i + 1, Len(s)))
    ELSE <<s>>

\* The versions the pins of the argument can tell apart.
Versions == (0 - 1)..(MaxVer + 2)

\* ---------------------------------------------------------------- C2
\* C2 as stated: when the argument has no exact pin and holds a valid upper
\* bound `<M` or `<=M` and a valid lower bound `>N` or `>=N` with M < N, the
\* call raises the contradiction error, whatever other valid pins it holds.
C2_AsStated ==
    (/\ outcome.kind # "none"
     /\ PlainPins
     /\ ExactPins = <<>>
     /\ \E i, j \in 1..Len(ValidPins) :
           /\ IsUpperBound(ValidPins[i])
           /\ IsLowerBound(ValidPins[j])
           /\ Threshold(ValidPins[i]) < Threshold(ValidPins[j]))
        => outcome.kind = "contradiction"

\* ---------------------------------------------------------------- C3
\* C3 as stated: when the valid pins include an exact pin `=N`, the call
\* raises the contradiction error if and only if N does not satisfy some
\* other valid comparison pin, and otherwise returns the exact pin alone.
C3_AsStated ==
    (outcome.kind # "none" /\ PlainPins /\ ExactPins # <<>>) =>
        LET exact == ExactPins[1]
            unsatisfied ==
                \E i \in 1..Len(ValidPins) :
                    /\ IsUpperBound(ValidPins[i]) \/ IsLowerBound(ValidPins[i])
                    /\ ~Satisfies(IntOf(Tail(exact)), ValidPins[i])
        IN  IF unsatisfied THEN outcome.kind = "contradiction" ELSE outcome = Returned(exact)

\* ---------------------------------------------------------------- C4
\* C4 as stated: when the call returns a non-empty string, every version that
\* satisfies all pins of the returned comma-joined string satisfies every
\* valid pin of the argument.
C4_AsStated ==
    (outcome.kind = "str" /\ outcome.value # <<>> /\ PlainPins) =>
        \A v \in Versions :
            (\A k \in 1..Len(Split(outcome.value)) : Satisfies(v, Split(outcome.value)[k]))
                => \A i \in 1..Len(ValidPins) : Satisfies(v, ValidPins[i])

AllPlatformKeys == UNION {PlatformKeys(m) : m \in Metas}

\* What bucket (p, which) of package pkg has to hold: the occurrences of the
\* input list with that ecosystem that apply to p, in input order.
Bucket(pkg, p, which) ==
    SelectSeq(Occurrences(pkg), LAMBDA m : m.which = which /\ p \in PlatformKeys(m))

Elements(list) == {list[k] : k \in 1..Len(list)}

\* key(m) <= key(sel) under the key (has-pin, pin string).
KeyLeq(m, sel) == m.pin = None \/ (sel.pin # None /\ ~StrLess(sel.pin, m.pin))

\* The first Declaration of the bucket with a maximal key.
FirstMaximal(b) ==
    LET maximal(k) == \A j \in 1..Len(b) : KeyLeq(b[j], b[k])
    IN  b[CHOOSE k \in 1..Len(b) : maximal(k) /\ \A j \in 1..(k - 1) : ~maximal(j)]

HasSlot(pkg, p, which) ==
    /\ DictHas(resolved, pkg)
    /\ DictHas(DictGet(resolved, pkg), p)
    /\ DictHas(DictGet(DictGet(resolved, pkg), p), which)

SelectedOf(pkg, p, which) == DictGet(DictGet(DictGet(resolved, pkg), p), which)

\* The Declarations of the bucket that differ from the selected one.
Discarded(pkg, p, which) ==
    SelectSeq(Bucket(pkg, p, which), LAMBDA m : m # SelectedOf(pkg, p, which))

\* ---------------------------------------------------------------- C5
\* The four rules of the claim on one step of the Reconciler over all slots.
C5_Rules ==
    pc = "selected" =>
      LET both(src) == DictHas(src, "conda") /\ DictHas(src, "pip")
          conda(src) == DictGet(src, "conda")
          pip(src) == DictGet(src, "pip")
          rule4(src) ==
              /\ both(src)
              /\ conda(src).pin # None
              /\ pip(src).pin # None
              /\ conda(src).pin # pip(src).pin
          keeps(out, ws) ==
              /\ DictKeys(out) = {m.which : m \in ws}
              /\ \A m \in ws : DictGet(out, m.which) = m
          slots == {<<i, j>> \in (1..Len(resolved)) \X (1..MaxMetas + 1) :
                        j <= Len(resolved[i][2])}
      IN  /\ \A s \in slots :
                LET src == resolved[s[1]][2][s[2]][2]
                    out == resolved'[s[1]][2][s[2]][2]
                IN  IF ~both(src) THEN out = src
                    ELSE IF conda(src).pin # None /\ pip(src).pin = None
                    THEN keeps(out, {conda(src)})
                    ELSE IF pip(src).pin # None /\ conda(src).pin = None
                    THEN keeps(out, {pip(src)})
                    ELSE keeps(out, {conda(src), pip(src)})
          /\ Len(warnings') - Len(warnings)
                = Cardinality({s \in slots : rule4(resolved[s[1]][2][s[2]][2])})

\* C5 as stated: for a slot with both ecosystems the Reconciler keeps only the
\* Declaration with a non-null pin when exactly one pin is non-null, keeps
\* both without warning when the pins are equal, and keeps both with exactly
\* one warning when both pins are non-null and differ; a slot with one
\* ecosystem is returned unchanged.  The empty string is a non-null pin.
C5_AsStated == [][C5_Rules]_vars

\* ---------------------------------------------------------------- C6
\* C6: in every bucket with more than one Declaration the Selector selects a
\* Declaration of the bucket whose key (has-pin, pin string) is maximal: a
\* pinned one before an unpinned one, and among pinned ones the greatest pin
\* string in lexicographic order; a bucket of unpinned ones is reduced too.
C6_SelectsMaximal ==
    pc = "selected" =>
        \A pkg \in DictKeys(requirements) : \A p \in AllPlatformKeys : \A w \in Whichs :
            LET b == Bucket(pkg, p, w)
            IN  Len(b) > 1 =>
                    /\ HasSlot(pkg, p, w)
                    /\ SelectedOf(pkg, p, w) \in Elements(b)
                    /\ \A m \in Elements(b) : KeyLeq(m, SelectedOf(pkg, p, w))

\* A bucket with `>=9`, `>=10` and an unpinned Declaration, from which `>=9`
\* is selected.
C6_Witness ==
    /\ pc = "selected"
    /\ \E pkg \in DictKeys(requirements) : \E p \in AllPlatformKeys : \E w \in Whichs :
          /\ {m.pin : m \in Elements(Bucket(pkg, p, w))}
                = {None, <<">", "=", "9">>, <<">", "=", "1", "0">>}
          /\ HasSlot(pkg, p, w)
          /\ SelectedOf(pkg, p, w).pin = <<">", "=", "9">>

\* ---------------------------------------------------------------- C7
\* C7: the Grouper's result has the package names of the input, and for each
\* package exactly the non-empty buckets (p, which), each holding the
\* occurrences of the input list with that ecosystem that apply to p (the
\* null key when the platform set is null), once each and in input order.
C7_Grouping ==
    pc = "prepared" =>
        /\ Len(prepared) = Len(requirements)
        /\ \A i \in 1..Len(prepared) :
              LET pkg == requirements[i][1]
                  g == prepared[i][2]
              IN  /\ prepared[i][1] = pkg
                  /\ Cardinality(DictKeys(g)) = Len(g)
                  /\ \A p \in DictKeys(g) :
                        Cardinality(DictKeys(DictGet(g, p))) = Len(DictGet(g, p))
                  /\ \A p \in AllPlatformKeys \cup DictKeys(g) :
                        \A w \in Whichs \cup (IF DictHas(g, p) THEN DictKeys(DictGet(g, p)) ELSE {}) :
                            LET present == DictHas(g, p) /\ DictHas(DictGet(g, p), w)
                            IN  /\ present <=> Bucket(pkg, p, w) # <<>>
                                /\ present => DictGet(DictGet(g, p), w) = Bucket(pkg, p, w)

\* Two packages, and a Declaration with two platforms given twice: each of
\* its two buckets holds both occurrences.
C7_Witness ==
    /\ pc = "prepared"
    /\ Len(prepared) = 2
    /\ \E i \in 1..Len(prepared) : \E w \in Whichs :
          /\ DictKeys(prepared[i][2]) = {"linux-64", "osx-64"}
          /\ \A p \in {"linux-64", "osx-64"} :
                /\ DictHas(DictGet(prepared[i][2], p), w)
                /\ LET b == DictGet(DictGet(prepared[i][2], p), w)
                   IN  Len(b) = 2 /\ b[1] = b[2]

\* ---------------------------------------------------------------- C9
\* C9 as stated: no call changes its argument: the input mapping of
\* resolve_conflicts stays as the caller built it, and the Selector leaves
\* the bucket lists of its `data` argument in the order they had.
C9_AsStated ==
    [][/\ pc' # "input" => requirements' = requirements
       /\ pc = "prepared" => prepared' = prepared]_vars

\* ---------------------------------------------------------------- C10
\* C10: the Selector emits exactly one warning for a bucket that holds a
\* Declaration different from the selected one, and the warning names every
\* such Declaration; it emits none for any other bucket; and the selected
\* Declaration is the first of the bucket with a maximal key, warning or not.
C10_Warnings ==
    pc = "selected" =>
        /\ \A pkg \in DictKeys(requirements) : \A p \in AllPlatformKeys : \A w \in Whichs :
              Bucket(pkg, p, w) # <<>> =>
                  /\ HasSlot(pkg, p, w)
                  /\ SelectedOf(pkg, p, w) = FirstMaximal(Bucket(pkg, p, w))
                  /\ IF Discarded(pkg, p, w) = <<>>
                     THEN BucketWarnings(pkg, p, w) = {}
                     ELSE /\ Cardinality(BucketWarnings(pkg, p, w)) = 1
                          /\ \A i \in BucketWarnings(pkg, p, w) :
                                /\ warnings[i].selected = SelectedOf(pkg, p, w)
                                /\ Elements(warnings[i].discarded)
                                      = Elements(Discarded(pkg, p, w))
                                /\ Len(warnings[i].discarded) = Len(Discarded(pkg, p, w))
        /\ \A i \in 1..Len(warnings) :
              \E pkg \in DictKeys(requirements) : \E p \in AllPlatformKeys : \E w \in Whichs :
                  i \in BucketWarnings(pkg, p, w) /\ Bucket(pkg, p, w) # <<>>

\* One bucket of three with a warning that names one Declaration, and one
\* bucket of two equal Declarations without warning.
C10_Witness ==
    /\ pc = "selected"
    /\ \E pkg \in DictKeys(requirements) : \E w \in Whichs :
          /\ Len(Bucket(pkg, "linux-64", w)) = 3
          /\ Len(Discarded(pkg, "linux-64", w)) = 1
          /\ BucketWarnings(pkg, "linux-64", w) # {}
          /\ Len(Bucket(pkg, "osx-64", w)) = 2
          /\ BucketWarnings(pkg, "osx-64", w) = {}

\* ---------------------------------------------------------------- C11
\* The dependency strings of the returned list that render Declaration d.
DepsOf(d) == {x \in DOMAIN pip_deps.count : x.spec = d}

\* C11 as stated: filter_python_dependencies renders every surviving pip
\* Declaration; one that survives only in platform-specific slots gets
\* markers made of exactly the platforms of those slots, and a string
\* without marker is returned only for one that survives in the null slot,
\* whatever other slots the package has and in whatever order.
C11_AsStated ==
    pc = "filtered" =>
        /\ pip_deps.kind = "list"
        /\ \A pkg \in DictKeys(requirements) : \A d \in MetasOf(pkg) :
              (d.which = "pip" /\ SlotsOf(pkg, d) # {}) =>
                  /\ DepsOf(d) # {}
                  /\ \A x \in DepsOf(d) : x.marker.kind = "none" => NoneKey \in SlotsOf(pkg, d)
                  /\ NoneKey \notin SlotsOf(pkg, d) =>
                        /\ \A x \in DepsOf(d) : x.marker.kind = "marker"
                        /\ UNION {{x.marker.platforms[k] : k \in 1..Len(x.marker.platforms)} :
                                      x \in DepsOf(d)} = SlotsOf(pkg, d)

\* ---------------------------------------------------------------- C12
\* resolve_conflicts(reqs) as one function: lines 112-121.
ResolveConflicts(reqs) ==
    LET prep == PrepareMetas(reqs)
    IN  ReconcileAll([i \in 1..Len(prep) |->
                         <<prep[i][1], SelectPreferred(prep[i][2]).reduced>>]).resolved

\* Which Declaration survives per package, platform and ecosystem.
SlotMap(res) ==
    UNION {UNION {{<<res[i][1], res[i][2][j][1], res[i][2][j][2][k][1], res[i][2][j][2][k][2]>> :
                      k \in 1..Len(res[i][2][j][2])} :
                  j \in 1..Len(res[i][2])} :
           i \in 1..Len(res)}

\* The list with the Declarations of positions a and b exchanged.
Exchange(list, a, b) == [list EXCEPT ![a] = list[b], ![b] = list[a]]

\* The list itself and the lists that two of its Declarations exchanged give.
\* Every permutation is a sequence of exchanges, and every list of at most
\* MaxMetas Declarations is an input of some run, so what holds of every run
\* and every exchange holds of every permutation.
Reorderings(list) == {Exchange(list, a, b) : a, b \in 1..Len(list)}

\* The input mappings that differ from reqs in the order of the list of one
\* package.
Reordered(reqs) ==
    UNION {{[reqs EXCEPT ![i] = <<reqs[i][1], list>>] : list \in Reorderings(reqs[i][2])} :
           i \in 1..Len(reqs)}

\* No bucket of the input holds two distinct Declarations with the same pin
\* (or both without pin).
NoTies ==
    \A pkg \in DictKeys(requirements) : \A p \in AllPlatformKeys : \A w \in Whichs :
        \A a, b \in Elements(Bucket(pkg, p, w)) : a.pin = b.pin => a = b

\* Every exchange of two Declarations of an input list resolves to the slots
\* of this run.
OrderIndependent ==
    \A reqs \in Reordered(requirements) : SlotMap(ResolveConflicts(reqs)) = SlotMap(resolved)

\* C12 as stated: the resolved slots of resolve_conflicts are the same for
\* every permutation of a package's input list, also when two distinct
\* Declarations of one bucket have the same pin or both have no pin.
C12_AsStated == pc = "done" => OrderIndependent

\* C12 amended: exchanging two Declarations of a package's input list, and so
\* every permutation of the list, leaves the resolved slots of
\* resolve_conflicts the same, provided no bucket holds two distinct
\* Declarations with the same pin or both without pin.
C12_WithoutTies == (pc = "done" /\ NoTies) => OrderIndependent

\* A bucket of three distinct Declarations with three different keys, of which
\* the selected one is not the first of the input list.
C12_Witness ==
    /\ pc = "done"
    /\ NoTies
    /\ \E pkg \in DictKeys(requirements) : \E w \in Whichs :
          /\ Len(Bucket(pkg, "linux-64", w)) = 3
          /\ Cardinality(Elements(Bucket(pkg, "linux-64", w))) = 3
          /\ HasSlot(pkg, "linux-64", w)
          /\ SelectedOf(pkg, "linux-64", w) # Bucket(pkg, "linux-64", w)[1]

====
